---------------------------- MODULE Spec2Model ----------------------------
(***************************************************************************)
(* A model of icingcake's request pipeline (src/src/main.rs): the router   *)
(* handle_http, the table query handler handle_table with its three        *)
(* suspension points (CONFIG.read().await, send().await, bytes().await),   *)
(* the ordering of RowPart, and the shared CONFIG cell of                  *)
(* src/src/config.rs.                                                      *)
(*                                                                         *)
(* Text is a sequence of Unicode scalar values (naturals).  Rust compares  *)
(* String values by their UTF-8 bytes, which orders them exactly as their  *)
(* sequences of scalar values are ordered.                                 *)
(***************************************************************************)
EXTENDS Integers, Sequences, FiniteSets

VARIABLES
    config,        \* the Config held in CONFIG (config.rs:21)
    readers,       \* the requests holding a read guard of CONFIG's RwLock
    pc,            \* per request: where its handler task stands
    request,       \* per request: the inbound request (split path, query)
    upstream,      \* per request: what the Icinga API does with its call
    objtype,       \* per request: handle_table's local `objtype`
    filter,        \* per request: handle_table's local `filter`
    icinga_config, \* per request: handle_table's local clone of icinga_api
    sent,          \* per request: the upstream requests issued, in order
    response_status, \* per request: handle_table's local `response_status`
    responses      \* per request: the responses returned to hyper, in order

vars == <<config, readers, pc, request, upstream, objtype, filter,
          icinga_config, sent, response_status, responses>>

---------------------------------------------------------------------------
(* Bounds of the model. *)

\* the number of request slots (inbound connections) of the server
NumRequests == 2
\* the longest query string, in '&'-separated pieces
MaxPieces == 3
\* the longest `results` array of the documents with arbitrary elements
MaxResults == 2
\* the longest `results` array of the documents with well-formed elements
MaxRows == 3
\* the longest upstream body that is not JSON text, in bytes
MaxBodyLen == 3

Requests == 1..NumRequests

---------------------------------------------------------------------------
(* Text constants used by the code. *)

\* "objtype"
S_objtype == <<111, 98, 106, 116, 121, 112, 101>>
\* "filter"
S_filter == <<102, 105, 108, 116, 101, 114>>
\* "hosts"
S_hosts == <<104, 111, 115, 116, 115>>
\* "services"
S_services == <<115, 101, 114, 118, 105, 99, 101, 115>>
\* "objects", the first segment of format!("objects/{}", objtype)
S_objects == <<111, 98, 106, 101, 99, 116, 115>>

\* All sequences over S of length at most n.
SeqsUpTo(S, n) == UNION {[1..k -> S] : k \in 0..n}

---------------------------------------------------------------------------
(* Option and Result values. *)

None == [some |-> FALSE]
Some(x) == [some |-> TRUE, v |-> x]
UnwrapOr(opt, d) == IF opt.some THEN opt.v ELSE d

\* How a handler's future ends: with the response it returns, or by a panic
\* (an `unwrap` or `expect` that fails), which returns nothing.
Returned(resp) == [panic |-> FALSE, resp |-> resp]
Panicked == [panic |-> TRUE]

---------------------------------------------------------------------------
(* Ordering: std::cmp::Ordering, Ordering::then_with, the comparison of    *)
(* u8 and of String, and RowPart's Ord.                                    *)

IntCmp(a, b) == IF a < b THEN "Less" ELSE IF a > b THEN "Greater" ELSE "Equal"

ThenWith(first, second) == IF first = "Equal" THEN second ELSE first

RECURSIVE StrCmp(_, _)
StrCmp(s, t) ==
    IF s = <<>> /\ t = <<>> THEN "Equal"
    ELSE IF s = <<>> THEN "Less"
    ELSE IF t = <<>> THEN "Greater"
    ELSE ThenWith(IntCmp(Head(s), Head(t)), StrCmp(Tail(s), Tail(t)))

\* a plausible slip: the state compared in the same direction as the rest
RowPartCmpStateAscending(self, other) ==
    ThenWith(IntCmp(self.state, other.state),
    ThenWith(StrCmp(self.host, other.host),
    ThenWith(StrCmp(self.service, other.service),
             StrCmp(self.output, other.output))))

\* RowPart::partial_cmp / RowPart::cmp: "state is reversed!"
RowPartCmp(self, other) ==
    ThenWith(IntCmp(other.state, self.state),
    ThenWith(StrCmp(self.host, other.host),
    ThenWith(StrCmp(self.service, other.service),
             StrCmp(self.output, other.output))))

\* One insertion into a sequence ordered by RowPartCmp.
RECURSIVE InsertRow(_, _)
InsertRow(row, sorted) ==
    IF sorted = <<>> THEN <<row>>
    ELSE IF RowPartCmp(row, Head(sorted)) = "Less" THEN <<row>> \o sorted
    ELSE <<Head(sorted)>> \o InsertRow(row, Tail(sorted))

\* rows.sort_unstable(): the rows in the order of Ord (rows that compare
\* Equal are equal in every field, so the result does not depend on the
\* sorting algorithm).
RECURSIVE SortUnstable(_)
SortUnstable(rows) ==
    IF rows = <<>> THEN <<>>
    ELSE InsertRow(Head(rows), SortUnstable(Tail(rows)))

---------------------------------------------------------------------------
(* serde_json::Value.  A number keeps serde_json's representation: PosInt  *)
(* (u64), NegInt (a negative i64) or Float (f64, here its integral part).  *)
(* An object is a TLA+ record of its members.  A value is the pair of its  *)
(* kind and its content.                                                   *)

Tag(value) == value[1]
Payload(value) == value[2]

Null == <<"null", 0>>
Num(repr, n) == <<"num", [repr |-> repr, n |-> n]>>
Str(s) == <<"str", s>>
Arr(a) == <<"arr", a>>
Obj(o) == <<"obj", o>>
\* the object with no members
EmptyObj == <<"obj", <<>>>>

\* Index<&str> for Value: `value[key]`, Null unless an object has the key
Index(value, key) ==
    IF Tag(value) = "obj" /\ key \in DOMAIN Payload(value)
    THEN Payload(value)[key] ELSE Null

AsArray(value) == IF Tag(value) = "arr" THEN Some(Payload(value)) ELSE None

\* a plausible slip: a `results` that is no array read as an empty one
AsArrayOrEmpty(value) ==
    IF Tag(value) = "arr" THEN Some(Payload(value)) ELSE Some(<<>>)

\* a plausible slip: .and_then(..).unwrap_or_default() on `results`
ResultsOfOrEmpty(response_json) == AsArrayOrEmpty(Index(response_json, "results"))

\* response_json["results"].as_array()
ResultsOf(response_json) == AsArray(Index(response_json, "results"))

AsStr(value) == IF Tag(value) = "str" THEN Some(Payload(value)) ELSE None

\* Value::as_u64: only a number held as u64
AsU64(value) ==
    IF Tag(value) = "num" /\ Payload(value).repr = "PosInt"
    THEN Some(Payload(value).n) ELSE None

\* u64 -> u8 by TryFrom
TryIntoU8(n) == IF n <= 255 THEN Some(n) ELSE None

\* a plausible slip: every state above 6 taken for out of range
StateOfClamped(result) ==
    LET n == UnwrapOr(AsU64(Index(Index(result, "attrs"), "state")), 5)
    IN  IF n <= 6 THEN n ELSE 6

\* result["attrs"]["state"].as_u64().unwrap_or(5).try_into().unwrap_or(6)
StateOf(result) ==
    UnwrapOr(TryIntoU8(UnwrapOr(AsU64(Index(Index(result, "attrs"), "state")), 5)), 6)

\* a plausible slip: the two names of a service row exchanged
RowOfSwapped(ot, result) ==
    LET attrs == Index(result, "attrs") IN
    [host    |-> IF ot = S_services
                 THEN UnwrapOr(AsStr(Index(attrs, "name")), <<>>)
                 ELSE UnwrapOr(AsStr(Index(attrs, "name")), <<>>),
     service |-> IF ot = S_services
                 THEN UnwrapOr(AsStr(Index(attrs, "host_name")), <<>>)
                 ELSE <<>>,
     output  |-> UnwrapOr(AsStr(Index(Index(attrs, "last_check_result"), "output")), <<>>),
     state   |-> StateOf(result)]

\* the body of `for result in results`: one RowPart
RowOf(ot, result) ==
    LET attrs == Index(result, "attrs") IN
    [host    |-> IF ot = S_services
                 THEN UnwrapOr(AsStr(Index(attrs, "host_name")), <<>>)
                 ELSE UnwrapOr(AsStr(Index(attrs, "name")), <<>>),
     service |-> IF ot = S_services
                 THEN UnwrapOr(AsStr(Index(attrs, "name")), <<>>)
                 ELSE <<>>,
     output  |-> UnwrapOr(AsStr(Index(Index(attrs, "last_check_result"), "output")), <<>>),
     state   |-> StateOf(result)]

\* the loop over `results`: rows.push in the order of the array
RECURSIVE BuildRows(_, _)
BuildRows(ot, results) ==
    IF results = <<>> THEN <<>>
    ELSE <<RowOf(ot, Head(results))>> \o BuildRows(ot, Tail(results))

---------------------------------------------------------------------------
(* The body of an upstream response is either JSON text, held as the       *)
(* document it is the text of, or bytes that are not JSON text.            *)

JsonBody(doc) == [k |-> "json", doc |-> doc]
RawBody(bytes) == [k |-> "raw", bytes |-> bytes]

\* serde_json::from_slice
FromSlice(body) == IF body.k = "json" THEN Some(body.doc) ELSE None

\* whether b is a UTF-8 continuation byte within lo..hi
InRange(b, lo, hi) == lo <= b /\ b <= hi

\* core::str::from_utf8, giving the scalar values of the text
RECURSIVE Utf8Decode(_)
Utf8Decode(bytes) ==
    IF bytes = <<>> THEN Some(<<>>)
    ELSE
    LET b0 == bytes[1]
        n  == Len(bytes)
        width == IF b0 < 128 THEN 1
                 ELSE IF InRange(b0, 194, 223) THEN 2
                 ELSE IF InRange(b0, 224, 239) THEN 3
                 ELSE IF InRange(b0, 240, 244) THEN 4
                 ELSE 0
        lo1 == IF b0 = 224 THEN 160 ELSE IF b0 = 240 THEN 144 ELSE 128
        hi1 == IF b0 = 237 THEN 159 ELSE IF b0 = 244 THEN 143 ELSE 191
        wellFormed ==
            /\ width > 0
            /\ n >= width
            /\ width >= 2 => InRange(bytes[2], lo1, hi1)
            /\ width >= 3 => InRange(bytes[3], 128, 191)
            /\ width >= 4 => InRange(bytes[4], 128, 191)
        scalar == IF width = 1 THEN b0
                  ELSE IF width = 2 THEN (b0 - 192) * 64 + (bytes[2] - 128)
                  ELSE IF width = 3
                       THEN (b0 - 224) * 4096 + (bytes[2] - 128) * 64 + (bytes[3] - 128)
                  ELSE (b0 - 240) * 262144 + (bytes[2] - 128) * 4096
                       + (bytes[3] - 128) * 64 + (bytes[4] - 128)
    IN  IF ~wellFormed THEN None
        ELSE LET rest == Utf8Decode(SubSeq(bytes, width + 1, n))
             IN  IF rest.some THEN Some(<<scalar>> \o rest.v) ELSE None

\* char::from_u32: None for a surrogate or a value above U+10FFFF
CharFromU32(n) ==
    IF n <= 1114111 /\ ~(n >= 55296 /\ n <= 57343) THEN Some(n) ELSE None

\* a plausible slip: only ASCII bytes taken for characters
CharFromAscii(n) == IF n < 128 THEN Some(n) ELSE None

\* `b as u32` then char::from_u32, for one byte of the body
CharOfByte(b) == CharFromU32(b)

\* the fallback loop: string.push(char::from_u32(b as u32).unwrap()), None
\* when an unwrap panics
Latin1(bytes) ==
    IF \A i \in 1..Len(bytes) : CharOfByte(bytes[i]).some
    THEN Some([i \in 1..Len(bytes) |-> CharOfByte(bytes[i]).v])
    ELSE None

\* a plausible slip: String::from_utf8_lossy-like, the invalid body emptied
ResponseStringOrEmpty(body) ==
    IF body.k = "json" THEN Some([k |-> "json_text", doc |-> body.doc])
    ELSE Some([k |-> "chars", s |-> UnwrapOr(Utf8Decode(body.bytes), <<>>)])

\* the else branch's `response_string`: String::from_utf8, or byte by byte;
\* None when the fallback panics.  JSON text is valid UTF-8 and decodes to
\* itself.
ResponseString(body) ==
    IF body.k = "json" THEN Some([k |-> "json_text", doc |-> body.doc])
    ELSE LET decoded == Utf8Decode(body.bytes) IN
         IF decoded.some THEN Some([k |-> "chars", s |-> decoded.v])
         ELSE LET string == Latin1(body.bytes) IN
              IF string.some THEN Some([k |-> "chars", s |-> string.v]) ELSE None

---------------------------------------------------------------------------
(* Responses. *)

\* return_500
Return500 ==
    [status |-> 500, content_type |-> "text/plain; charset=utf-8",
     body |-> [fmt |-> "500 Internal Server Error", args |-> <<>>]]

\* handle_plaintext_response: the builder rejects no status the code uses
HandlePlaintextResponse(status_code, fmt, args) ==
    IF status_code >= 100 /\ status_code <= 999
    THEN [status |-> status_code, content_type |-> "text/plain; charset=utf-8",
          body |-> [fmt |-> fmt, args |-> args]]
    ELSE Return500

Handle404 == HandlePlaintextResponse(404, "404 Not Found", <<>>)

\* <str as Debug>::fmt: the text in quotes, with the quote, the backslash
\* and the line feed, carriage return and tab escaped (the other characters
\* of the model's texts are printable and written as they are)
RECURSIVE EscapeDebug(_)
EscapeDebug(s) ==
    IF s = <<>> THEN <<>>
    ELSE LET c == Head(s)
             e == IF c = 34 THEN <<92, 34>>
                  ELSE IF c = 92 THEN <<92, 92>>
                  ELSE IF c = 10 THEN <<92, 110>>
                  ELSE IF c = 13 THEN <<92, 114>>
                  ELSE IF c = 9 THEN <<92, 116>>
                  ELSE <<c>>
         IN  e \o EscapeDebug(Tail(s))

DebugFmt(s) == <<34>> \o EscapeDebug(s) \o <<34>>

Handle400MissingParameter(param_name) ==
    HandlePlaintextResponse(400, "missing required parameter {}",
                            <<DebugFmt(param_name)>>)

\* a plausible slip: the invalid value reported as a missing parameter
Handle400WrongAsMissing(param_name, value) ==
    Handle400MissingParameter(param_name)

Handle400WrongParameter(param_name, value) ==
    HandlePlaintextResponse(400, "required parameter {} has invalid value {}",
                            <<DebugFmt(param_name), DebugFmt(value)>>)

\* Template::render of the three askama templates: the templates hold only
\* text, integers and loops over rows, and rendering them does not fail
TemplateRender(template) == Some(template)

\* render, then Response::builder().status(200) with the HTML content type
HtmlResponse(template) ==
    LET rendered == TemplateRender(template) IN
    IF rendered.some
    THEN [status |-> 200, content_type |-> "text/html; charset=utf-8",
          body |-> rendered.v]
    ELSE Return500

HandleIndex == HtmlResponse([template |-> "index.html"])

HandleStatic(file_name) ==
    IF file_name = "script.js"
    THEN [status |-> 200, content_type |-> "text/javascript",
          body |-> [asset |-> "static/script.js"]]
    ELSE IF file_name = "script.ts"
    THEN [status |-> 200, content_type |-> "application/typescript",
          body |-> [asset |-> "static/script.ts"]]
    ELSE IF file_name = "script.js.map"
    THEN [status |-> 200, content_type |-> "application/json",
          body |-> [asset |-> "static/script.js.map"]]
    ELSE Handle404

---------------------------------------------------------------------------
(* The query string.  It is held as its '&'-separated pieces, each a name, *)
(* whether an '=' follows it, and the value after the '=' (already         *)
(* percent-decoded).  The empty piece is [k |-> <<>>, eq |-> FALSE].       *)

Piece(k, eq, v) == [k |-> k, eq |-> eq, v |-> v]

\* form_urlencoded::parse(..).collect(): empty pieces are skipped, a piece
\* without '=' has the empty value; the pairs keep the pieces' order
RECURSIVE FormParse(_)
FormParse(pieces) ==
    IF pieces = <<>> THEN <<>>
    ELSE LET p == Head(pieces) IN
         IF p.k = <<>> /\ ~p.eq THEN FormParse(Tail(pieces))
         ELSE <<<<p.k, IF p.eq THEN p.v ELSE <<>>>>>> \o FormParse(Tail(pieces))

\* handle_table's `query_pairs`
QueryPairs(query) == IF query.some THEN FormParse(query.v) ELSE <<>>

\* .filter(|(k, _v)| k == key).map(|(_k, v)| v).last(): the iterator is
\* walked front to back and the value seen last is kept
RECURSIVE LastValue(_, _, _)
LastValue(query_pairs, key, seen) ==
    IF query_pairs = <<>> THEN seen
    ELSE LastValue(Tail(query_pairs), key,
                   IF Head(query_pairs)[1] = key
                   THEN Some(Head(query_pairs)[2]) ELSE seen)

\* a plausible slip: .next() instead of .last()
RECURSIVE FirstValue(_, _)
FirstValue(query_pairs, key) ==
    IF query_pairs = <<>> THEN None
    ELSE IF Head(query_pairs)[1] = key THEN Some(Head(query_pairs)[2])
    ELSE FirstValue(Tail(query_pairs), key)

GetRequiredParameterFirst(query_pairs, key) ==
    LET val_opt == FirstValue(query_pairs, key) IN
    IF val_opt.some THEN [ok |-> TRUE, v |-> val_opt.v]
    ELSE [ok |-> FALSE, resp |-> Handle400MissingParameter(key)]

\* a plausible slip: a missing parameter read as the empty text
GetRequiredParameterOrEmpty(query_pairs, key) ==
    [ok |-> TRUE, v |-> UnwrapOr(LastValue(query_pairs, key, None), <<>>)]

\* get_required_parameter: Ok(value) or Err(the 400 response)
GetRequiredParameter(query_pairs, key) ==
    LET val_opt == LastValue(query_pairs, key, None) IN
    IF val_opt.some THEN [ok |-> TRUE, v |-> val_opt.v]
    ELSE [ok |-> FALSE, resp |-> Handle400MissingParameter(key)]

ObjtypeValid(ot) == ot = S_hosts \/ ot = S_services

\* handle_table up to its first suspension point: lines 174-199.  Either a
\* response (done) or the two validated parameters.
TableParameters(query) ==
    LET query_pairs == QueryPairs(query)
        ot == GetRequiredParameter(query_pairs, S_objtype)
        f  == GetRequiredParameter(query_pairs, S_filter)
    IN  IF ~ot.ok THEN [done |-> TRUE, resp |-> ot.resp]
        ELSE IF ~ObjtypeValid(ot.v)
        THEN [done |-> TRUE, resp |-> Handle400WrongParameter(S_objtype, ot.v)]
        ELSE IF ~f.ok THEN [done |-> TRUE, resp |-> f.resp]
        ELSE [done |-> FALSE, objtype |-> ot.v, filter |-> f.v]

---------------------------------------------------------------------------
(* URLs.  A URL is whether it cannot be a base (mailto:, data:) and the    *)
(* segments of its path; a path ending in '/' has an empty last segment.   *)

Url(cannot_be_a_base, path) == [cannot_be_a_base |-> cannot_be_a_base, path |-> path]

\* format!("objects/{}", objtype), as the relative reference Url::join
\* parses: objtype is "hosts" or "services" here, so it is one segment
IcingaUrlPath(ot) == <<S_objects, ot>>

\* Url::join: the reference replaces the base path's last segment; a URL
\* that cannot be a base gives an error
UrlJoin(base_url, segments) ==
    IF base_url.cannot_be_a_base THEN None
    ELSE Some(Url(FALSE, SubSeq(base_url.path, 1, Len(base_url.path) - 1) \o segments))

\* serde_json::json!({"filter": filter})
ApiBody(f) == Obj([filter |-> Str(f)])

\* the request built at lines 222-226
UpstreamRequest(icinga_url, cfg, f) ==
    [method |-> "POST", url |-> icinga_url,
     basic_auth |-> <<cfg.username, cfg.password>>,
     method_override |-> "GET",
     body |-> JsonBody(ApiBody(f))]

---------------------------------------------------------------------------
(* handle_table after response.bytes(): lines 244-333. *)

\* the 200 branch
TableView(ot, body) ==
    LET response_json == FromSlice(body) IN
    IF ~response_json.some THEN Return500
    ELSE LET results == ResultsOf(response_json.v) IN
         IF ~results.some THEN Return500
         ELSE HtmlResponse([template |-> "table.html",
                            rows |-> SortUnstable(BuildRows(ot, results.v))])

\* the else branch
IcingaErrorView(status, body) ==
    LET response_string == ResponseString(body) IN
    IF ~response_string.some THEN Panicked
    ELSE Returned(HtmlResponse([template |-> "icinga_error.html",
                                status_code |-> status,
                                error_json |-> response_string.v]))

IsSuccess(status) == status = 200

TableResponse(ot, status, body) ==
    IF IsSuccess(status) THEN Returned(TableView(ot, body))
    ELSE IcingaErrorView(status, body)

---------------------------------------------------------------------------
(* The router. *)

\* the `while` loop of handle_http: leading empty parts removed
RECURSIVE StripLeadingEmpty(_)
StripLeadingEmpty(path_parts) ==
    IF path_parts # <<>> /\ Head(path_parts) = ""
    THEN StripLeadingEmpty(Tail(path_parts))
    ELSE path_parts

\* the if-chain of handle_http
Route(path_parts) ==
    IF Len(path_parts) = 0 THEN "index"
    ELSE IF path_parts = <<"table">> THEN "table"
    ELSE IF Len(path_parts) = 2 /\ path_parts[1] = "static" THEN "static"
    ELSE "404"

---------------------------------------------------------------------------
(* The inputs: configurations, inbound requests, upstream behaviours. *)

\* "v1", "a", "b", "ab", "h1", "OK" and the value `x"`, which Debug escapes
S_v1 == <<118, 49>>
S_a == <<97>>
S_b == <<98>>
S_ab == <<97, 98>>
S_h1 == <<104, 49>>
S_OK == <<79, 75>>
S_xquote == <<120, 34>>

\* Config, as config::load returns it and main stores it in CONFIG
ConfigOf(base_url) ==
    [http_server |-> [listen_socket_address |-> "127.0.0.1:8080"],
     icinga_api  |-> [base_url |-> base_url, username |-> "root",
                      password |-> "icinga"]]

\* https://icinga:5665/v1/ , https://icinga:5665/v1 and mailto:icinga
BaseUrls == {Url(FALSE, <<S_v1, <<>>>>), Url(FALSE, <<S_v1>>), Url(TRUE, <<>>)}

DefaultConfig == ConfigOf(Url(FALSE, <<S_v1, <<>>>>))

Configs == {ConfigOf(u) : u \in BaseUrls}

QueryKeys == {S_objtype, S_filter}
QueryValues == {S_hosts, S_services, S_xquote}

Pieces ==
    {Piece(<<>>, FALSE, <<>>)}
    \cup {Piece(k, FALSE, <<>>) : k \in QueryKeys}
    \cup {Piece(k, TRUE, v) : k \in QueryKeys, v \in QueryValues}

\* request.uri().query(): None without a '?'
Queries == {None} \cup {Some(q) : q \in SeqsUpTo(Pieces, MaxPieces)}

\* ?objtype=hosts&filter=x" and ?objtype=services&filter=hosts
QueryHosts == Some(<<Piece(S_objtype, TRUE, S_hosts), Piece(S_filter, TRUE, S_xquote)>>)
QueryServices == Some(<<Piece(S_objtype, TRUE, S_services), Piece(S_filter, TRUE, S_hosts)>>)
ValidQueries == {QueryHosts, QueryServices}

\* request.uri().path() split at '/' with each part percent-decoded
\* (decode_path_parts): / , /table , //table , /table/ , /static/script.js ,
\* /static/script.ts , /static/script.js.map , /static/unknown.js , /nope ,
\* /static
TablePath == <<"", "table">>
Paths ==
    {<<"", "">>, TablePath, <<"", "", "table">>, <<"", "table", "">>,
     <<"", "static", "script.js">>, <<"", "static", "script.ts">>,
     <<"", "static", "script.js.map">>, <<"", "static", "unknown.js">>,
     <<"", "nope">>, <<"", "static">>}

Request(path, query) == [path |-> path, query |-> query]

\* the outcomes of client.request(..).send().await and response.bytes().await
SendError == [k |-> "send_err"]
ReadError(status) == [k |-> "read_err", status |-> status]
Response(status, body) == [k |-> "response", status |-> status, body |-> body]

\* a member that the document does not have
Absent == <<"absent", 0>>

\* the JSON object with the members of rec that are not Absent
MkObj(rec) ==
    Obj([k \in {m \in DOMAIN rec : Tag(rec[m]) # "absent"} |-> rec[k]])

\* an element of `results`
Element(name, host_name, state, last_check_result) ==
    MkObj([attrs |-> MkObj([name |-> name, host_name |-> host_name,
                            state |-> state,
                            last_check_result |-> last_check_result])])

CheckResult(output) == MkObj([output |-> Str(output)])

\* what an upstream may send as attrs.state
StateValues ==
    {Absent, Null, Str(S_a),
     Num("PosInt", 0), Num("PosInt", 1), Num("PosInt", 6), Num("PosInt", 7),
     Num("PosInt", 255), Num("PosInt", 256), Num("NegInt", -1), Num("Float", 2)}

ArbitraryElements ==
    {Element(Str(S_a), Str(S_b), st, CheckResult(S_OK)) : st \in StateValues}
    \cup {Element(n, h, Num("PosInt", 0), CheckResult(S_OK)) :
             n \in {Absent, Str(S_h1), Num("PosInt", 1)}, h \in {Absent, Str(S_b)}}
    \cup {Element(Str(S_a), Str(S_b), Num("PosInt", 0), l) :
             l \in {Absent, Null, EmptyObj, MkObj([output |-> Num("PosInt", 1)])}}
    \cup {Null, EmptyObj, Obj([attrs |-> Str(S_a)])}

\* well-formed elements that differ in each key of the order
Row(state, host_name, name, output) ==
    Element(Str(name), Str(host_name), Num("PosInt", state), CheckResult(output))

WellFormedElements ==
    {Row(2, S_a, S_a, S_b), Row(1, S_a, S_a, S_b), Row(2, S_b, S_a, S_b),
     Row(1, S_b, S_a, S_b), Row(2, S_a, S_ab, S_a), Row(2, S_a, S_a, S_a)}

ResultsDoc(results) == Obj([results |-> Arr(results)])

\* the example of the Icinga API: one host h1, state 0, output OK
ExampleDoc ==
    ResultsDoc(<<Element(Str(S_h1), Absent, Num("PosInt", 0), CheckResult(S_OK))>>)

\* documents whose `results` is absent or no array
MalformedDocs ==
    {Null, EmptyObj, Str(S_a), Num("PosInt", 1), Arr(<<>>),
     Arr(<<Row(2, S_a, S_a, S_b)>>),
     Obj([error |-> Num("PosInt", 404)]),
     Obj([results |-> Null]), Obj([results |-> EmptyObj]),
     Obj([results |-> Str(S_a)]), Obj([results |-> Num("PosInt", 1)]),
     Obj([results |-> Obj([results |-> Arr(<<Row(2, S_a, S_a, S_b)>>)])]),
     Obj([results |-> EmptyObj, status |-> Str(S_OK)])}

Docs ==
    MalformedDocs
    \cup {ResultsDoc(a) : a \in SeqsUpTo(ArbitraryElements, MaxResults)}
    \cup {ResultsDoc(a) : a \in SeqsUpTo(WellFormedElements, MaxRows)}

\* bytes of bodies that are not JSON text: 'A', the two bytes of U+00E9,
\* and 0xFF
BodyBytes == {65, 195, 169, 255}

Statuses == {200, 201, 204, 404, 500}

Bodies ==
    {RawBody(b) : b \in SeqsUpTo(BodyBytes, MaxBodyLen)}
    \cup {JsonBody(d) : d \in {ExampleDoc, Obj([error |-> Num("PosInt", 404)])}}

---------------------------------------------------------------------------
(* The handler tasks.  hyper runs handle_http once per inbound request, as *)
(* a task of the tokio runtime; a task is taken up again after each of its *)
(* three suspension points.                                                *)

\* the future of handle_http ends: its response goes to hyper, or the task
\* panicked and returns none
Finish(r, result) ==
    IF result.panic
    THEN /\ pc' = [pc EXCEPT ![r] = "panicked"]
         /\ UNCHANGED responses
    ELSE /\ pc' = [pc EXCEPT ![r] = "done"]
         /\ responses' = [responses EXCEPT ![r] = Append(@, result.resp)]

\* handle_http, and handle_table up to CONFIG.get().read().await
HandleHttp(r) ==
    /\ pc[r] = "arrived"
    /\ LET path_parts == StripLeadingEmpty(request[r].path)
           route == Route(path_parts)
           params == TableParameters(request[r].query)
       IN  IF route = "table" /\ ~params.done
           THEN /\ objtype' = [objtype EXCEPT ![r] = params.objtype]
                /\ filter' = [filter EXCEPT ![r] = params.filter]
                /\ pc' = [pc EXCEPT ![r] = "read_config"]
                /\ UNCHANGED responses
           ELSE /\ Finish(r, Returned(
                       IF route = "table" THEN params.resp
                       ELSE IF route = "index" THEN HandleIndex
                       ELSE IF route = "static" THEN HandleStatic(path_parts[2])
                       ELSE Handle404))
                /\ UNCHANGED <<objtype, filter>>
    /\ UNCHANGED <<config, readers, request, upstream, icinga_config, sent,
                   response_status>>

\* CONFIG.get().expect(..).read().await resolves: the task holds a read
\* guard.  No task ever asks for the write half of the lock.
ConfigRead(r) ==
    /\ pc[r] = "read_config"
    /\ readers' = readers \cup {r}
    /\ pc' = [pc EXCEPT ![r] = "cloning"]
    /\ UNCHANGED <<config, request, upstream, objtype, filter, icinga_config,
                   sent, response_status, responses>>

\* a plausible slip: the guard bound outside the block and kept
GuardKept(r) == readers

\* the end of the block at line 206: config_guard is dropped
GuardDropped(r) == readers \ {r}

\* config_guard.icinga_api.clone(), the end of the block, the URL, and the
\* request handed to the client: lines 205-227
CloneAndSend(r) ==
    /\ pc[r] = "cloning"
    /\ r \in readers
    /\ LET cloned == config.icinga_api
           icinga_url == UrlJoin(cloned.base_url, IcingaUrlPath(objtype[r]))
       IN  /\ icinga_config' = [icinga_config EXCEPT ![r] = Some(cloned)]
           /\ readers' = GuardDropped(r)
           /\ IF ~icinga_url.some
              THEN /\ Finish(r, Returned(Return500))
                   /\ UNCHANGED sent
              ELSE /\ sent' = [sent EXCEPT ![r] =
                          Append(@, UpstreamRequest(icinga_url.v, cloned, filter[r]))]
                   /\ pc' = [pc EXCEPT ![r] = "sending"]
                   /\ UNCHANGED responses
    /\ UNCHANGED <<config, request, upstream, objtype, filter, response_status>>

\* send().await resolves: a transport failure or the client's timeout, or
\* the response's head; lines 228-235
SendResolved(r) ==
    /\ pc[r] = "sending"
    /\ IF upstream[r].k = "send_err"
       THEN /\ Finish(r, Returned(Return500))
            /\ UNCHANGED response_status
       ELSE /\ response_status' = [response_status EXCEPT ![r] = upstream[r].status]
            /\ pc' = [pc EXCEPT ![r] = "reading"]
            /\ UNCHANGED responses
    /\ UNCHANGED <<config, readers, request, upstream, objtype, filter,
                   icinga_config, sent>>

\* response.bytes().await resolves, and the rest of handle_table:
\* lines 236-333
BytesResolved(r) ==
    /\ pc[r] = "reading"
    /\ IF upstream[r].k = "read_err"
       THEN Finish(r, Returned(Return500))
       ELSE Finish(r, TableResponse(objtype[r], response_status[r], upstream[r].body))
    /\ UNCHANGED <<config, readers, request, upstream, objtype, filter,
                   icinga_config, sent, response_status>>

\* one step of the handler task of request r
HandlerStep(r) ==
    \/ HandleHttp(r)
    \/ ConfigRead(r)
    \/ CloneAndSend(r)
    \/ SendResolved(r)
    \/ BytesResolved(r)

Next == \E r \in Requests : HandlerStep(r)

---------------------------------------------------------------------------
(* Initial states.  main stores the configuration and the client before    *)
(* the server accepts a request, so every task finds both set.             *)

\* a slot on which no request arrives
NoRequest == Request(<<>>, None)

\* one request with its configuration and its upstream's behaviour
Scenario(cfg, path, query, outcome) ==
    [config |-> cfg, request |-> Request(path, query), upstream |-> outcome]

\* every query string, against an upstream that fails or answers
QueryScenarios ==
    {Scenario(DefaultConfig, TablePath, q, o) :
        q \in Queries, o \in {SendError, Response(200, JsonBody(ExampleDoc))}}

\* every status and body, for the two object types
StatusScenarios ==
    {Scenario(DefaultConfig, TablePath, q, o) :
        q \in ValidQueries,
        o \in {SendError} \cup {ReadError(st) : st \in Statuses}
              \cup {Response(st, b) : st \in Statuses, b \in Bodies}}

\* every document, on a 200 response, for the two object types
DocScenarios ==
    {Scenario(DefaultConfig, TablePath, q, Response(200, JsonBody(d))) :
        q \in ValidQueries, d \in Docs}

\* every base URL
ConfigScenarios ==
    {Scenario(c, TablePath, q, o) :
        c \in Configs, q \in ValidQueries,
        o \in {SendError, Response(200, JsonBody(ExampleDoc))}}

\* every path
PathScenarios ==
    {Scenario(DefaultConfig, p, q, SendError) : p \in Paths, q \in {None, QueryHosts}}

InitLocals ==
    /\ readers = {}
    /\ objtype = [r \in Requests |-> <<>>]
    /\ filter = [r \in Requests |-> <<>>]
    /\ icinga_config = [r \in Requests |-> None]
    /\ sent = [r \in Requests |-> <<>>]
    /\ response_status = [r \in Requests |-> 0]
    /\ responses = [r \in Requests |-> <<>>]

\* one request, on the first slot, with one of the scenarios
InitOneOf(scenarios) ==
    \E sc \in scenarios :
        /\ config = sc.config
        /\ request = [r \in Requests |-> IF r = 1 THEN sc.request ELSE NoRequest]
        /\ upstream = [r \in Requests |-> IF r = 1 THEN sc.upstream ELSE SendError]

Init ==
    /\ \/ InitOneOf(QueryScenarios)
       \/ InitOneOf(StatusScenarios)
       \/ InitOneOf(DocScenarios)
       \/ InitOneOf(ConfigScenarios)
       \/ InitOneOf(PathScenarios)
    /\ pc = [r \in Requests |-> IF r = 1 THEN "arrived" ELSE "none"]
    /\ InitLocals

Spec == Init /\ [][Next]_vars

\* what a request of the concurrent runs may be
ConcurrentInputs ==
    {[request |-> Request(TablePath, QueryHosts), upstream |-> o] :
        o \in {SendError, ReadError(200), Response(200, JsonBody(ExampleDoc)),
               Response(404, RawBody(<<65, 255>>))}}
    \cup {[request |-> Request(p, None), upstream |-> SendError] :
        p \in {TablePath, <<"", "">>, <<"", "static", "script.js">>, <<"", "nope">>}}

\* a request on every slot, handled concurrently
InitConcurrent ==
    /\ config = DefaultConfig
    /\ \E in \in [Requests -> ConcurrentInputs] :
          /\ request = [r \in Requests |-> in[r].request]
          /\ upstream = [r \in Requests |-> in[r].upstream]
    /\ pc = [r \in Requests |-> "arrived"]
    /\ InitLocals

SpecConcurrent == InitConcurrent /\ [][Next]_vars

\* the runtime takes up every task that can proceed: the lock is never
\* write-locked, and the client's timeout bounds both awaits on the upstream
Fairness == \A r \in Requests : WF_vars(HandlerStep(r))

\* requests that end in each of the four statuses: an upstream call that
\* fails, an upstream error with a body that is not valid UTF-8, a missing
\* parameter and an unknown path
FairInputs ==
    {[request |-> Request(TablePath, QueryHosts), upstream |-> o] :
        o \in {SendError, Response(404, RawBody(<<65, 255>>))}}
    \cup {[request |-> Request(p, None), upstream |-> SendError] :
        p \in {TablePath, <<"", "nope">>}}

InitFair ==
    /\ config = DefaultConfig
    /\ \E in \in [Requests -> FairInputs] :
          /\ request = [r \in Requests |-> in[r].request]
          /\ upstream = [r \in Requests |-> in[r].upstream]
    /\ pc = [r \in Requests |-> "arrived"]
    /\ InitLocals

FairSpec == InitFair /\ [][Next]_vars /\ Fairness

---------------------------------------------------------------------------
(* What the properties speak of, stated on the inputs and the responses    *)
(* alone.                                                                  *)

\* the request's path is /table, after any number of leading slashes
IsTableRequest(r) ==
    \E n \in 1..Len(request[r].path) :
        /\ \A i \in 1..(n - 1) : request[r].path[i] = ""
        /\ n = Len(request[r].path)
        /\ request[r].path[n] = "table"

\* the places of the query string where parameter `key` occurs
Occurrences(r, key) ==
    IF request[r].query.some
    THEN {i \in DOMAIN request[r].query.v : request[r].query.v[i].k = key}
    ELSE {}

HasParameter(r, key) == Occurrences(r, key) # {}

\* the value of the occurrence of `key` that no other occurrence follows
LastOccurrence(r, key) ==
    LET i == CHOOSE m \in Occurrences(r, key) :
                 \A o \in Occurrences(r, key) : o <= m
        piece == request[r].query.v[i]
    IN  IF piece.eq THEN piece.v ELSE <<>>

\* the handler has not yet run, or it has ended
Handled(r) == pc[r] # "arrived"

\* the handler ended with exactly one response, of this status
AnsweredWith(r, status) ==
    /\ pc[r] = "done"
    /\ Len(responses[r]) = 1
    /\ responses[r][1].status = status

\* the handler ended; it is not waiting on the lock or on the upstream
Ended(r) == pc[r] \in {"done", "panicked"}

\* the text between the quotes of a Debug-formatted text, unescaped; <<0>>
\* stands for a text that is no Debug output
RECURSIVE Unescaped(_)
Unescaped(s) ==
    IF s = <<>> THEN <<>>
    ELSE IF Head(s) = 92
    THEN IF Len(s) < 2 THEN <<0>>
         ELSE <<(IF s[2] = 110 THEN 10 ELSE IF s[2] = 114 THEN 13
                 ELSE IF s[2] = 116 THEN 9 ELSE s[2])>>
              \o Unescaped(SubSeq(s, 3, Len(s)))
    ELSE <<Head(s)>> \o Unescaped(Tail(s))

Unquoted(s) ==
    IF Len(s) >= 2 /\ s[1] = 34 /\ s[Len(s)] = 34
    THEN Unescaped(SubSeq(s, 2, Len(s) - 1))
    ELSE <<0>>

---------------------------------------------------------------------------
\* C1: a table request whose query string lacks `objtype` or lacks `filter`
\* (or has no query string at all) is answered with status 400, and no
\* upstream request is issued for it at any time.
C1_MissingParameter400 ==
    \A r \in Requests :
        (/\ pc[r] # "none"
         /\ IsTableRequest(r)
         /\ ~HasParameter(r, S_objtype) \/ ~HasParameter(r, S_filter))
        => /\ sent[r] = <<>>
           /\ Handled(r) => AnsweredWith(r, 400)

\* a request with a valid objtype and no filter has been answered with 400
C1_Witness ==
    \E r \in Requests :
        /\ IsTableRequest(r)
        /\ HasParameter(r, S_objtype)
        /\ LastOccurrence(r, S_objtype) = S_hosts
        /\ ~HasParameter(r, S_filter)
        /\ AnsweredWith(r, 400)
        /\ sent[r] = <<>>

\* C2: a table request whose effective objtype is neither hosts nor
\* services is answered with status 400 and a plain-text body that names
\* the parameter objtype and the rejected value, whatever the other
\* parameters are, and no upstream request is issued.
C2_InvalidObjtype400 ==
    \A r \in Requests :
        (/\ pc[r] # "none"
         /\ IsTableRequest(r)
         /\ HasParameter(r, S_objtype)
         /\ LastOccurrence(r, S_objtype) \notin {S_hosts, S_services})
        => /\ sent[r] = <<>>
           /\ Handled(r) =>
                /\ AnsweredWith(r, 400)
                /\ responses[r][1].content_type = "text/plain; charset=utf-8"
                /\ responses[r][1].body.fmt = "required parameter {} has invalid value {}"
                /\ Len(responses[r][1].body.args) = 2
                /\ Unquoted(responses[r][1].body.args[1]) = S_objtype
                /\ Unquoted(responses[r][1].body.args[2]) = LastOccurrence(r, S_objtype)

\* an objtype with a character that Debug escapes has been rejected, the
\* filter being absent
C2_Witness ==
    \E r \in Requests :
        /\ IsTableRequest(r)
        /\ HasParameter(r, S_objtype)
        /\ LastOccurrence(r, S_objtype) = S_xquote
        /\ ~HasParameter(r, S_filter)
        /\ AnsweredWith(r, 400)
        /\ responses[r][1].body.args[2] = <<34, 120, 92, 34, 34>>

\* C3: with several occurrences of objtype or of filter, the last one in
\* query-string order is the one validated, the one in the upstream URL's
\* path and the one in the upstream request's body.
C3_LastOccurrenceWins ==
    \A r \in Requests :
        (pc[r] # "none" /\ IsTableRequest(r) /\ Handled(r)) =>
            LET accepted ==
                    /\ HasParameter(r, S_objtype)
                    /\ LastOccurrence(r, S_objtype) \in {S_hosts, S_services}
                    /\ HasParameter(r, S_filter)
            IN  /\ ~accepted => (AnsweredWith(r, 400) /\ sent[r] = <<>>)
                /\ accepted => ~(pc[r] = "done" /\ responses[r][1].status = 400)
                /\ sent[r] # <<>> =>
                     /\ accepted
                     /\ Len(sent[r]) = 1
                     /\ sent[r][1].url.path[Len(sent[r][1].url.path)]
                            = LastOccurrence(r, S_objtype)
                     /\ sent[r][1].body
                            = JsonBody(Obj([filter |-> Str(LastOccurrence(r, S_filter))]))

\* ?objtype=hosts&objtype=services&filter=.. has queried `services`
C3_Witness ==
    \E r \in Requests :
        /\ IsTableRequest(r)
        /\ \E i, j \in Occurrences(r, S_objtype) :
              /\ i < j
              /\ request[r].query.v[i] = Piece(S_objtype, TRUE, S_hosts)
              /\ request[r].query.v[j] = Piece(S_objtype, TRUE, S_services)
        /\ sent[r] # <<>>
        /\ sent[r][1].url.path = <<S_v1, S_objects, S_services>>

---------------------------------------------------------------------------
(* The rendered table and the order of its rows. *)

\* the handler rendered the table view from the 200 response of an upstream
\* whose document has a `results` array
RenderedTable(r) ==
    /\ pc[r] = "done"
    /\ sent[r] # <<>>
    /\ upstream[r].k = "response"
    /\ upstream[r].status = 200
    /\ upstream[r].body.k = "json"
    /\ Tag(upstream[r].body.doc) = "obj"
    /\ "results" \in DOMAIN Payload(upstream[r].body.doc)
    /\ Tag(Payload(upstream[r].body.doc).results) = "arr"

\* the `results` array of the upstream's document
ResultsSent(r) == Payload(Payload(upstream[r].body.doc).results)

\* the rows of the table the handler returned
RowsRendered(r) == responses[r][1].body.rows

\* s is before t in lexicographic order
LexLess(s, t) ==
    \E n \in 0..Len(s) :
        /\ n <= Len(t)
        /\ \A i \in 1..n : s[i] = t[i]
        /\ \/ n = Len(s) /\ n < Len(t)
           \/ n < Len(s) /\ n < Len(t) /\ s[n + 1] < t[n + 1]

\* the order of the table: state descending, then host, service and output
\* ascending
RowBefore(a, b) ==
    \/ a.state > b.state
    \/ a.state = b.state /\ LexLess(a.host, b.host)
    \/ a.state = b.state /\ a.host = b.host /\ LexLess(a.service, b.service)
    \/ /\ a.state = b.state /\ a.host = b.host /\ a.service = b.service
       /\ LexLess(a.output, b.output)

\* how often x occurs in the sequence
CountIn(seq, x) == Cardinality({i \in DOMAIN seq : seq[i] = x})

\* the two sequences hold the same elements, each as often
IsPermutation(s, t) ==
    /\ Len(s) = Len(t)
    /\ \A i \in DOMAIN s : CountIn(s, s[i]) = CountIn(t, s[i])

\* The statement of C4 as written: of any two rows of the rendered table,
\* one precedes the other iff it is strictly before it in the order.
C4_AsStated ==
    \A r \in Requests :
        RenderedTable(r) =>
            /\ AnsweredWith(r, 200)
            /\ IsPermutation(RowsRendered(r), BuildRows(objtype[r], ResultsSent(r)))
            /\ \A i, j \in DOMAIN RowsRendered(r) :
                  i # j => ((i < j) <=> RowBefore(RowsRendered(r)[i], RowsRendered(r)[j]))

\* C4: the rendered rows are a permutation of the rows built from the
\* upstream's results; of two rows that differ in some field, one precedes
\* the other iff its state is greater, or the states are equal and its host
\* is smaller, and so on through service and output; rows equal in all four
\* fields follow one another.
C4_SortedByStateDescending ==
    \A r \in Requests :
        RenderedTable(r) =>
            /\ AnsweredWith(r, 200)
            /\ responses[r][1].body.template = "table.html"
            /\ IsPermutation(RowsRendered(r), BuildRows(objtype[r], ResultsSent(r)))
            /\ \A i, j \in DOMAIN RowsRendered(r) :
                  /\ (i # j /\ RowsRendered(r)[i] # RowsRendered(r)[j]) =>
                        ((i < j) <=> RowBefore(RowsRendered(r)[i], RowsRendered(r)[j]))
                  /\ (i < j /\ RowsRendered(r)[i] = RowsRendered(r)[j]) =>
                        \A m \in i..j : RowsRendered(r)[m] = RowsRendered(r)[i]

\* three rows arrived in another order than they are rendered in, the
\* greater state first although its host is the greater
C4_Witness ==
    \E r \in Requests :
        /\ RenderedTable(r)
        /\ Len(RowsRendered(r)) = 3
        /\ RowsRendered(r) # BuildRows(objtype[r], ResultsSent(r))
        /\ RowsRendered(r)[1].state > RowsRendered(r)[2].state
        /\ LexLess(RowsRendered(r)[2].host, RowsRendered(r)[1].host)
        /\ RowsRendered(r)[2] = RowsRendered(r)[3]

---------------------------------------------------------------------------
(* The error view. *)

\* the UTF-8 encoding of a text of scalar values below U+0800
RECURSIVE Utf8Encode(_)
Utf8Encode(text) ==
    IF text = <<>> THEN <<>>
    ELSE (IF Head(text) < 128 THEN <<Head(text)>>
          ELSE <<192 + (Head(text) \div 64), 128 + (Head(text) % 64)>>)
         \o Utf8Encode(Tail(text))

\* the texts whose encoding is made of the bytes of BodyBytes: 'A', U+00E9
TextsOfBodyBytes == SeqsUpTo({65, 233}, MaxBodyLen)

\* the bytes are the UTF-8 encoding of some text
IsUtf8(bytes) == \E text \in TextsOfBodyBytes : Utf8Encode(text) = bytes

\* the upstream answered the handler's call with a status other than 200,
\* its body was read, and the handler has gone on from there
UpstreamErrorHandled(r) ==
    /\ sent[r] # <<>>
    /\ upstream[r].k = "response"
    /\ upstream[r].status # 200
    /\ pc[r] \notin {"sending", "reading"}

\* C5: an upstream response with a status other than 200 (201 and 204
\* included) whose body was read gives a 200 response with the error view,
\* which carries the upstream's status code and the body's text: the text
\* the body encodes when it is valid UTF-8, and else one character per byte,
\* of the byte's value; no body makes the handler fail or answer 500.
C5_UpstreamErrorView ==
    \A r \in Requests :
        UpstreamErrorHandled(r) =>
            /\ AnsweredWith(r, 200)
            /\ responses[r][1].content_type = "text/html; charset=utf-8"
            /\ responses[r][1].body.template = "icinga_error.html"
            /\ responses[r][1].body.status_code = upstream[r].status
            /\ LET body == upstream[r].body
                   error_json == responses[r][1].body.error_json
               IN  IF body.k = "json"
                   THEN error_json = [k |-> "json_text", doc |-> body.doc]
                   ELSE /\ error_json.k = "chars"
                        /\ IF IsUtf8(body.bytes)
                           THEN Utf8Encode(error_json.s) = body.bytes
                           ELSE error_json.s = body.bytes

\* a 201 response whose body is not valid UTF-8 (a complete two-byte
\* character, then 0xFF) has been rendered byte by byte
C5_Witness ==
    \E r \in Requests :
        /\ UpstreamErrorHandled(r)
        /\ upstream[r].status = 201
        /\ upstream[r].body = RawBody(<<195, 169, 255>>)
        /\ AnsweredWith(r, 200)
        /\ responses[r][1].body.error_json.s = <<195, 169, 255>>

---------------------------------------------------------------------------
\* the document of a 200 response has no `results` array: it is no object,
\* or has no member `results`, or the member is no array
MalformedResults(r) ==
    /\ sent[r] # <<>>
    /\ upstream[r].k = "response"
    /\ upstream[r].status = 200
    /\ upstream[r].body.k = "json"
    /\ LET doc == upstream[r].body.doc IN
       \/ Tag(doc) # "obj"
       \/ "results" \notin DOMAIN Payload(doc)
       \/ Tag(Payload(doc).results) # "arr"

\* C6: a 200 upstream response whose JSON document has no `results` member,
\* or one that is no array, is answered with status 500, whatever else the
\* document holds; no table is rendered.
C6_MalformedResults500 ==
    \A r \in Requests :
        (MalformedResults(r) /\ pc[r] \notin {"sending", "reading"}) =>
            /\ AnsweredWith(r, 500)
            /\ responses[r][1] = [status |-> 500,
                                  content_type |-> "text/plain; charset=utf-8",
                                  body |-> [fmt |-> "500 Internal Server Error",
                                            args |-> <<>>]]

\* a document whose `results` is an object, beside another member, has been
\* answered with 500
C6_Witness ==
    \E r \in Requests :
        /\ MalformedResults(r)
        /\ Tag(upstream[r].body.doc) = "obj"
        /\ DOMAIN Payload(upstream[r].body.doc) = {"results", "status"}
        /\ Tag(Payload(upstream[r].body.doc).results) = "obj"
        /\ AnsweredWith(r, 500)

---------------------------------------------------------------------------
(* The rows built from the results. *)

\* the member `key` of a JSON value, Absent when the value is no object or
\* has no such member
Member(value, key) ==
    IF Tag(value) = "obj" /\ key \in DOMAIN Payload(value)
    THEN Payload(value)[key] ELSE Absent

\* attrs.state of an element of `results`
ReportedState(element) == Member(Member(element, "attrs"), "state")

\* the reported state is an integer: serde_json holds it as u64 or i64
IsInteger(value) ==
    Tag(value) = "num" /\ Payload(value).repr \in {"PosInt", "NegInt"}

\* the states of the rows, as a sequence in the order of the rows
StatesOf(rows) == [i \in DOMAIN rows |-> rows[i].state]

\* The statement of C7 as written: a state in 0..6, the reported integer in
\* that range, 5 for an absent or non-numeric state, 6 for an integer out of
\* the range.
StateAsStated(element) ==
    LET st == ReportedState(element) IN
    IF Tag(st) # "num" THEN {5}
    ELSE IF IsInteger(st)
    THEN IF Payload(st).n \in 0..6 THEN {Payload(st).n} ELSE {6}
    ELSE 0..6

C7_AsStated ==
    \A r \in Requests :
        RenderedTable(r) =>
            /\ \A i \in DOMAIN RowsRendered(r) : RowsRendered(r)[i].state \in 0..6
            /\ Len(ResultsSent(r)) = 1 =>
                  RowsRendered(r)[1].state \in StateAsStated(ResultsSent(r)[1])

\* the state the code gives an element: the reported number when it is a
\* non-negative integer up to 255, 6 when it is a non-negative integer above
\* 255, and 5 for everything else (absent, no number, negative, or a number
\* that is not held as an integer)
StateAmended(element) ==
    LET st == ReportedState(element) IN
    IF Tag(st) = "num" /\ Payload(st).repr = "PosInt"
    THEN IF Payload(st).n <= 255 THEN Payload(st).n ELSE 6
    ELSE 5

\* C7 (amended): every row's state is in 0..255: the upstream-reported
\* number when it is a non-negative integer of at most 255; 5 when
\* attrs.state is absent, is no number, is negative or is not an integer;
\* 6 when it is a non-negative integer above 255.
C7_StateOfRow ==
    \A r \in Requests :
        RenderedTable(r) =>
            /\ \A i \in DOMAIN RowsRendered(r) : RowsRendered(r)[i].state \in 0..255
            /\ IsPermutation(StatesOf(RowsRendered(r)),
                             [i \in DOMAIN ResultsSent(r) |-> StateAmended(ResultsSent(r)[i])])

\* a reported state of 7 and one of 256 have been rendered as 7 and as 6
C7_Witness ==
    \E r \in Requests :
        /\ RenderedTable(r)
        /\ Len(ResultsSent(r)) = 2
        /\ ReportedState(ResultsSent(r)[1]) = Num("PosInt", 7)
        /\ ReportedState(ResultsSent(r)[2]) = Num("PosInt", 256)
        /\ StatesOf(RowsRendered(r)) = <<7, 6>>

\* the text of a JSON value, empty when the value is no string
TextOf(value) == IF Tag(value) = "str" THEN Payload(value) ELSE <<>>

\* the host, service and output that C8 gives an element
NamesExpected(ot, element) ==
    LET attrs == Member(element, "attrs") IN
    [host    |-> IF ot = S_hosts THEN TextOf(Member(attrs, "name"))
                 ELSE TextOf(Member(attrs, "host_name")),
     service |-> IF ot = S_hosts THEN <<>> ELSE TextOf(Member(attrs, "name")),
     output  |-> TextOf(Member(Member(attrs, "last_check_result"), "output"))]

NamesOf(row) == [host |-> row.host, service |-> row.service, output |-> row.output]

\* C8: a 200 response with a `results` array gives exactly one row per
\* element; for hosts the row's host is attrs.name and its service is empty,
\* for services its host is attrs.host_name and its service attrs.name; its
\* output is attrs.last_check_result.output, empty when absent.
C8_OneRowPerResult ==
    \A r \in Requests :
        RenderedTable(r) =>
            /\ AnsweredWith(r, 200)
            /\ Len(RowsRendered(r)) = Len(ResultsSent(r))
            /\ IsPermutation(
                  [i \in DOMAIN RowsRendered(r) |-> NamesOf(RowsRendered(r)[i])],
                  [i \in DOMAIN ResultsSent(r) |->
                      NamesExpected(LastOccurrence(r, S_objtype), ResultsSent(r)[i])])

\* the example: for hosts, {attrs: {name: "h1", state: 0, last_check_result:
\* {output: "OK"}}} has given the row {h1, "", OK, 0}
C8_Witness ==
    \E r \in Requests :
        /\ RenderedTable(r)
        /\ LastOccurrence(r, S_objtype) = S_hosts
        /\ upstream[r].body.doc = ExampleDoc
        /\ RowsRendered(r) =
              <<[host |-> S_h1, service |-> <<>>, output |-> S_OK, state |-> 0]>>

---------------------------------------------------------------------------
(* Every request is answered. *)

\* what has been returned for the request so far is at most one response,
\* of one of the four statuses, and its task has not panicked
WellAnswered(r) ==
    /\ pc[r] # "panicked"
    /\ Len(responses[r]) <= 1
    /\ \A i \in DOMAIN responses[r] : responses[r][i].status \in {200, 400, 404, 500}
    /\ pc[r] = "done" <=> Len(responses[r]) = 1

---------------------------------------------------------------------------
(* The read guard of CONFIG. *)

\* the handler's upstream call is under way: sent and not yet answered, or
\* answered and its body not yet read
UpstreamCallUnderWay(r) == pc[r] \in {"sending", "reading"}

\* C10: no handler holds the read guard of CONFIG while its upstream call
\* is under way or after it: the guard is released once base URL, username
\* and password are copied, so the lock is free for a writer whenever no
\* handler is between acquiring and copying; the upstream request carries
\* the copied values.
C10_NoGuardAcrossUpstreamCall ==
    \A r \in Requests :
        /\ (UpstreamCallUnderWay(r) \/ Ended(r)) => r \notin readers
        /\ r \in readers <=> pc[r] = "cloning"
        /\ sent[r] # <<>> =>
              /\ icinga_config[r] = Some(config.icinga_api)
              /\ Len(sent[r]) = 1
              /\ sent[r][1].basic_auth
                    = <<icinga_config[r].v.username, icinga_config[r].v.password>>
              /\ sent[r][1].url.path
                    = <<S_v1, S_objects, LastOccurrence(r, S_objtype)>>

\* two upstream calls are under way at once and nobody holds the lock; and
\* a state where one handler holds the guard while another's call is under
\* way is the same run one step earlier
C10_Witness ==
    \E r1, r2 \in Requests :
        /\ r1 # r2
        /\ pc[r1] = "sending"
        /\ pc[r2] = "reading"
        /\ readers = {}

===========================================================================
